---- MODULE Spec2Model ----
(***************************************************************************)
(* A model of curation.py: the RSS fetch stage with its pickle cache, the  *)
(* per-entry image extraction, the Gemini headline scorer, and the main    *)
(* block (deduplication, selection, scoring, ranking, column split).       *)
(*                                                                         *)
(* Texts are sequences of tokens (words or characters), urls are small     *)
(* naturals standing for distinct non-empty strings, and Python's None for *)
(* an optional record is the empty sequence, a present record r is <<r>>.  *)
(***************************************************************************)
EXTENDS Integers, Sequences, FiniteSets, TLC

VARIABLES
    \* ---- main block (lines 345-424)
    pc,                  \* position in the main block
    all_articles,        \* line 351
    seen_urls,           \* line 356
    unique_articles,     \* lines 357, 374
    articles_to_process, \* line 376
    headline_results,    \* line 387
    processed_articles,  \* lines 389, 414
    main_headline,       \* line 417: <<>> is None
    column1, column2, column3,
    \* ---- get_articles_from_rss and the cache file (lines 153-229)
    now,                 \* the clock read by time.time()
    ticks,               \* how often the clock has advanced
    runs,                \* how many runs of the script have started
    cache_file,          \* the content of CACHE_FILE
    fpc,                 \* position in get_articles_from_rss
    feed_state,          \* per feed: the state of its future (line 186)
    http,                \* per feed: what requests.get / feedparser produced
    future,              \* per feed: what fetch_feed returned or raised
    articles,            \* line 184
    cached_articles,     \* line 179: <<>> is None
    rss_result,          \* the value returned: <<>> before the return
    run_cache,           \* the cache file as the run found it
    run_start,           \* the clock as load_cache read it
    saved,               \* the record save_cache wrote last: <<>> if none
    \* ---- image extraction for one entry (lines 195-212)
    entry,               \* the parsed feed entry
    image_url,           \* line 212: <<>> is None, <<"">> the empty string
    image_done,
    \* ---- async_get_headline_and_score (lines 259-286)
    article_title,       \* the article title, a sequence of characters
    api,                 \* what generate_content_async did
    score_result,        \* what the coroutine returned or raised
    score_done

mainVars == <<pc, all_articles, seen_urls, unique_articles, articles_to_process,
              headline_results, processed_articles, main_headline,
              column1, column2, column3>>

fetchVars == <<now, ticks, runs, cache_file, fpc, feed_state, http, future, articles,
               cached_articles, rss_result, run_cache, run_start, saved>>

pureVars == <<entry, image_url, image_done, article_title, api, score_result, score_done>>

vars == <<mainVars, fetchVars, pureVars>>

(***************************************************************************)
(* Bounds of the model and constants of the program.                       *)
(***************************************************************************)
MaxArticles == 3
MaxRanked == 11
NumFeeds == 2
MaxRuns == 2
MaxTicks == 2
MaxResponseLen == 5
FullRanked == 4

MAX_ARTICLES_PER_SOURCE == 2
MAX_TOTAL_ARTICLES == 25
MAX_TECHNICAL_ARTICLES == 3
CACHE_TTL == 1800
MAX_WORKERS == 10

AI_KEYWORDS == {"gpt", "llm", "model", "algorithm"}
BREAKTHROUGH_KEYWORDS == {"breakthrough", "unveils", "launches"}
technical_sources == {"arXiv", "MIT News", "O'Reilly"}

(***************************************************************************)
(* Helpers on sequences.                                                   *)
(***************************************************************************)
Min(a, b) == IF a <= b THEN a ELSE b
Max(a, b) == IF a >= b THEN a ELSE b

\* Python's s[lo:hi] for 0 <= lo, 0 <= hi: both ends are clamped to len(s).
Slice(s, lo, hi) ==
    LET l == Min(lo, Len(s))
        h == Min(hi, Len(s))
    IN  IF h <= l THEN <<>> ELSE SubSeq(s, l + 1, h)

Range(s) == {s[i] : i \in DOMAIN s}

\* list.sort(key=..., reverse=True): descending and stable.  Pairs are
\* <<key, element>>; an element goes behind every element whose key is >= its own.
\* (a variant that puts an element before the elements of equal key)
RECURSIVE InsertDescBeforeEquals(_, _)
InsertDescBeforeEquals(sorted, p) ==
    IF sorted = <<>> THEN <<p>>
    ELSE IF Head(sorted)[1] > p[1]
         THEN <<Head(sorted)>> \o InsertDescBeforeEquals(Tail(sorted), p)
         ELSE <<p>> \o sorted

RECURSIVE InsertDesc(_, _)
InsertDesc(sorted, p) ==
    IF sorted = <<>> THEN <<p>>
    ELSE IF Head(sorted)[1] >= p[1]
         THEN <<Head(sorted)>> \o InsertDesc(Tail(sorted), p)
         ELSE <<p>> \o sorted

RECURSIVE SortPairsDesc(_)
SortPairsDesc(ps) ==
    IF ps = <<>> THEN <<>>
    ELSE InsertDesc(SortPairsDesc(SubSeq(ps, 1, Len(ps) - 1)), ps[Len(ps)])

sort_by_published(s) ==
    LET sorted == SortPairsDesc([i \in DOMAIN s |-> <<s[i].published, s[i]>>])
    IN  [i \in DOMAIN s |-> sorted[i][2]]

sort_by_score(s) ==
    LET sorted == SortPairsDesc([i \in DOMAIN s |-> <<s[i].score, s[i]>>])
    IN  [i \in DOMAIN s |-> sorted[i][2]]

(***************************************************************************)
(* Keyword tests.  A text is a sequence of word tokens; lower() maps each   *)
(* token to its lower-case form and a keyword occurs when a token equals it.*)
(***************************************************************************)
lower_token(w) ==
    CASE w = "GPT" -> "gpt"
      [] w = "Cake" -> "cake"
      [] OTHER -> w

lower(text) == [i \in DOMAIN text |-> lower_token(text[i])]

is_ai_related(title, summary) ==
    LET text == lower(title \o summary)
    IN  \E i \in DOMAIN text : text[i] \in AI_KEYWORDS

\* Of the keyword lists of get_boost only BREAKTHROUGH_KEYWORDS has words among
\* the titles below; the company, M&A and people lists add 0 on them.
get_boost(title, summary, source) ==
    LET text == lower(title \o summary)
        b1 == IF \E i \in DOMAIN text : text[i] \in BREAKTHROUGH_KEYWORDS THEN 30 ELSE 0
        b2 == IF source \in technical_sources THEN b1 + 5 ELSE b1
        b3 == IF source \in technical_sources /\ b2 < 10 THEN b2 - 5 ELSE b2
    IN  Min(Max(b3, 0), 100)

(***************************************************************************)
(* Inputs of the main block.                                               *)
(***************************************************************************)
Urls == {1, 2}
Titles == {<<"GPT", "launches">>, <<"Cake", "news">>}
Sources == {"Wired", "arXiv"}
Dates == {1, 2}
NoSummary == <<"No", "summary", "available.">>

\* Every fetched article has a title and a non-empty url (lines 193, 244).
ArticleShapes ==
    [url : Urls, title : Titles, source : Sources, published : Dates]

SeqsUpTo(S, n) == UNION {[1..k -> S] : k \in 0..n}

\* all_articles (line 351): record i carries its position as id.
Batches ==
    {[i \in DOMAIN b |->
        [id |-> i, url |-> b[i].url, title |-> b[i].title, summary |-> NoSummary,
         source |-> b[i].source, published |-> b[i].published]] :
     b \in SeqsUpTo(ArticleShapes, MaxArticles)}

\* The Gemini results gathered at line 387, one <<headline, score, tech>> each.
ApiResults == {<<5, 0>>, <<18, 8>>}

(***************************************************************************)
(* The cache file, lines 153-163.  A file is absent, unreadable by pickle  *)
(* ("corrupt"), a pickle of something that is no dict ("nondict"), or a    *)
(* record with a timestamp and a batch of articles.                        *)
(***************************************************************************)
Feeds == 1..NumFeeds
MaxEntries == MAX_ARTICLES_PER_SOURCE + 1

File(kind, timestamp, batch) == [kind |-> kind, timestamp |-> timestamp, articles |-> batch]
AbsentFile == File("absent", 0, <<>>)

\* load_cache returns a batch, returns None (value <<>>), or raises.
\* (a variant of load_cache that still accepts a record of age CACHE_TTL)
load_cache_lenient_ttl(file, clock) ==
    CASE file.kind = "absent" -> [raised |-> FALSE, value |-> <<>>]
      [] file.kind = "corrupt" -> [raised |-> TRUE, value |-> <<>>]
      [] file.kind = "nondict" -> [raised |-> TRUE, value |-> <<>>]
      [] OTHER ->
           IF clock - file.timestamp <= CACHE_TTL
           THEN [raised |-> FALSE, value |-> <<file.articles>>]
           ELSE [raised |-> FALSE, value |-> <<>>]

load_cache(file, clock) ==
    CASE file.kind = "absent" -> [raised |-> FALSE, value |-> <<>>]
      [] file.kind = "corrupt" -> [raised |-> TRUE, value |-> <<>>]
      [] file.kind = "nondict" -> [raised |-> TRUE, value |-> <<>>]
      [] OTHER ->
           IF clock - file.timestamp < CACHE_TTL
           THEN [raised |-> FALSE, value |-> <<file.articles>>]
           ELSE [raised |-> FALSE, value |-> <<>>]

save_cache(batch, clock) == File("record", clock, batch)

\* Python's truth value of load_cache's result at line 180: None and [] are false.
Truthy(opt) == opt # <<>> /\ opt[1] # <<>>

(***************************************************************************)
(* fetch_feed, lines 165-174.  An HTTP outcome is a failure (network error, *)
(* timeout, non-2xx status, a body the parser raises on) or the parsed      *)
(* entries; an entry is TRUE when it has both a title and a link.           *)
(***************************************************************************)
HttpOutcomes ==
    {[ok |-> FALSE, entries |-> <<>>]}
      \cup {[ok |-> TRUE, entries |-> e] : e \in SeqsUpTo(BOOLEAN, MaxEntries)}

NoOutcome == [ok |-> FALSE, entries |-> <<>>]
NoFuture == [raised |-> FALSE, entries |-> <<>>]

\* (a variant of fetch_feed without its try/except)
fetch_feed_uncaught(outcome) ==
    IF outcome.ok
    THEN [raised |-> FALSE, entries |-> outcome.entries]
    ELSE [raised |-> TRUE, entries |-> <<>>]

fetch_feed(outcome) ==
    IF outcome.ok
    THEN [raised |-> FALSE, entries |-> outcome.entries]
    ELSE [raised |-> FALSE, entries |-> <<>>]

\* (a variant without the slice of line 192)
capped_entries_uncut(entries) == entries

\* Line 192: feed.get('entries', [])[:MAX_ARTICLES_PER_SOURCE].
capped_entries(entries) == Slice(entries, 0, MAX_ARTICLES_PER_SOURCE)

\* Lines 192-226 for one feed: the articles appended, in entry order.
RECURSIVE ExtractFrom(_, _, _)
ExtractFrom(f, entries, i) ==
    IF i > Len(entries) THEN <<>>
    ELSE (IF entries[i] THEN <<[feed |-> f, idx |-> i]>> ELSE <<>>)
             \o ExtractFrom(f, entries, i + 1)

feed_articles(f, entries) == ExtractFrom(f, capped_entries(entries), 1)

(***************************************************************************)
(* Image extraction, lines 195-212.  An optional string is <<>> (None or a  *)
(* missing key) or <<s>>; a MIME type is a sequence of tokens, and `'image' *)
(* in type` holds when one of them is "image".  A summary or content block  *)
(* is the sequence of its <img> tags, each with an optional src.            *)
(***************************************************************************)
None == <<>>
Some(x) == <<x>>
Falsy(opt) == opt = None \/ opt = Some("")

Absent == [present |-> FALSE, items |-> <<>>]
Present(items) == [present |-> TRUE, items |-> items]

\* `'k' in entry and entry.k`
HasItems(field) == field.present /\ field.items # <<>>

ImagePng == <<"image", "/", "png">>
AudioMpeg == <<"audio", "/", "mpeg">>
XImage == <<"application", "/", "x-", "image">>

MentionsImage(type) == \E i \in DOMAIN type : type[i] = "image"

\* Lines 202-205: the href of the first enclosure whose type mentions "image".
RECURSIVE first_image_enclosure(_)
first_image_enclosure(encs) ==
    IF encs = <<>> THEN None
    ELSE IF MentionsImage(Head(encs).type) THEN Head(encs).href
    ELSE first_image_enclosure(Tail(encs))

\* Lines 208-211: soup.find('img') is the first <img>; it counts if it has a src.
summary_image(imgs) ==
    IF imgs # <<>> /\ ~Falsy(imgs[1].src) THEN imgs[1].src ELSE None

extract_image_url(e) ==
    LET first ==
            IF HasItems(e.media_content) THEN e.media_content.items[1].url
            ELSE IF HasItems(e.media_thumbnail) THEN e.media_thumbnail.items[1].url
            ELSE IF HasItems(e.enclosures) THEN first_image_enclosure(e.enclosures.items)
            ELSE None
    IN  IF Falsy(first) /\ e.summary.present
        THEN (IF summary_image(e.summary.items) # None
              THEN summary_image(e.summary.items) ELSE first)
        ELSE first

MediaItems(u) ==
    {Absent, Present(<<>>), Present(<<[url |-> None]>>), Present(<<[url |-> Some("")]>>),
     Present(<<[url |-> Some(u)]>>)}

ThumbnailItems ==
    {Absent, Present(<<[url |-> None]>>), Present(<<[url |-> Some("thumb.jpg")]>>)}

EnclosureItems ==
    {Absent,
     Present(<<[type |-> ImagePng, href |-> Some("enc.png")]>>),
     Present(<<[type |-> AudioMpeg, href |-> Some("a.mp3")],
               [type |-> ImagePng, href |-> Some("enc.png")]>>),
     Present(<<[type |-> XImage, href |-> Some("map.bin")]>>),
     Present(<<[type |-> ImagePng, href |-> None]>>)}

SummaryItems ==
    {Absent, Present(<<>>),
     Present(<<[src |-> None], [src |-> Some("second.jpg")]>>),
     Present(<<[src |-> Some("summary.jpg")]>>)}

ContentItems == {Absent, Present(<<[src |-> Some("content.jpg")]>>)}

Entries ==
    [media_content : MediaItems("media.jpg"), media_thumbnail : ThumbnailItems,
     enclosures : EnclosureItems, summary : SummaryItems, content : ContentItems]

NoEntry ==
    [media_content |-> Absent, media_thumbnail |-> Absent, enclosures |-> Absent,
     summary |-> Absent, content |-> Absent]

(***************************************************************************)
(* async_get_headline_and_score, lines 259-286.  Texts are sequences of    *)
(* characters.                                                             *)
(***************************************************************************)
Chars == {"1", "2", "x", "|", " ", "*"}
Digits == {"1", "2"}

RECURSIVE lstrip(_)
lstrip(t) == IF t # <<>> /\ Head(t) = " " THEN lstrip(Tail(t)) ELSE t

RECURSIVE rstrip(_)
rstrip(t) ==
    IF t # <<>> /\ t[Len(t)] = " " THEN rstrip(SubSeq(t, 1, Len(t) - 1)) ELSE t

strip(t) == rstrip(lstrip(t))

\* str.split('|', maxsplit)
RECURSIVE split_pipe(_, _)
split_pipe(t, maxsplit) ==
    IF maxsplit = 0 \/ \A i \in DOMAIN t : t[i] # "|"
    THEN <<t>>
    ELSE LET p == CHOOSE i \in DOMAIN t : t[i] = "|" /\ \A j \in 1..(i - 1) : t[j] # "|"
         IN  <<SubSeq(t, 1, p - 1)>> \o split_pipe(SubSeq(t, p + 1, Len(t)), maxsplit - 1)

DigitValue(c) == IF c = "1" THEN 1 ELSE 2

RECURSIVE decimal(_)
decimal(t) ==
    IF t = <<>> THEN 0 ELSE 10 * decimal(SubSeq(t, 1, Len(t) - 1)) + DigitValue(t[Len(t)])

\* int(s): over these characters s parses when it is a non-empty run of digits.
int_parses(t) == t # <<>> /\ \A i \in DOMAIN t : t[i] \in Digits

RECURSIVE remove_stars(_)
remove_stars(t) ==
    IF t = <<>> THEN <<>>
    ELSE (IF Head(t) = "*" THEN <<>> ELSE <<Head(t)>>) \o remove_stars(Tail(t))

Returned(headline, score, tech) ==
    [raised |-> FALSE, headline |-> headline, score |-> score, tech_importance |-> tech]
Raised == [raised |-> TRUE, headline |-> <<>>, score |-> 0, tech_importance |-> 0]

\* (a variant whose int() failures are not caught)
score_uncaught_value_error(t, outcome) ==
    LET fallback == Returned(strip(t), 5, 0)
    IN  IF ~outcome.ok THEN fallback
        ELSE LET parts == split_pipe(strip(outcome.text), 2)
             IN  IF Len(parts) = 3
                 THEN IF int_parses(strip(parts[1])) /\ int_parses(strip(parts[3]))
                      THEN Returned(remove_stars(strip(parts[2])),
                                    decimal(strip(parts[1])), decimal(strip(parts[3])))
                      ELSE Raised
                 ELSE fallback

async_get_headline_and_score(t, outcome) ==
    LET fallback == Returned(strip(t), 5, 0)
    IN  IF ~outcome.ok THEN fallback
        ELSE LET parts == split_pipe(strip(outcome.text), 2)
             IN  IF Len(parts) = 3
                 THEN IF int_parses(strip(parts[1])) /\ int_parses(strip(parts[3]))
                      THEN Returned(remove_stars(strip(parts[2])),
                                    decimal(strip(parts[1])), decimal(strip(parts[3])))
                      ELSE fallback
                 ELSE fallback

ApiOutcomes ==
    {[ok |-> FALSE, text |-> <<>>]}
      \cup {[ok |-> TRUE, text |-> t] : t \in SeqsUpTo(Chars, MaxResponseLen)}

TitleTexts == {<<"x">>, <<" ", "x", "*", " ">>}

PureIdle ==
    /\ entry = NoEntry
    /\ image_url = None
    /\ image_done = FALSE
    /\ article_title = <<>>
    /\ api = [ok |-> FALSE, text |-> <<>>]
    /\ score_result = Raised
    /\ score_done = FALSE

FetchIdle ==
    /\ now = 0
    /\ ticks = 0
    /\ runs = 0
    /\ cache_file = AbsentFile
    /\ fpc = "idle"
    /\ feed_state = [f \in Feeds |-> "idle"]
    /\ http = [f \in Feeds |-> NoOutcome]
    /\ future = [f \in Feeds |-> NoFuture]
    /\ articles = <<>>
    /\ cached_articles = <<>>
    /\ rss_result = <<>>
    /\ run_cache = AbsentFile
    /\ run_start = 0
    /\ saved = <<>>

MainIdle ==
    /\ pc = "idle"
    /\ all_articles = <<>>
    /\ seen_urls = {}
    /\ unique_articles = <<>>
    /\ articles_to_process = <<>>
    /\ headline_results = <<>>
    /\ processed_articles = <<>>
    /\ main_headline = <<>>
    /\ column1 = <<>>
    /\ column2 = <<>>
    /\ column3 = <<>>

\* Lines 178-186: read the cache; return it, fail, or submit every feed.
StartRun ==
    /\ fpc = "idle"
    /\ runs < MaxRuns
    /\ runs' = runs + 1
    /\ run_cache' = cache_file
    /\ run_start' = now
    /\ articles' = <<>>
    /\ http' = [f \in Feeds |-> NoOutcome]
    /\ future' = [f \in Feeds |-> NoFuture]
    /\ LET loaded == load_cache(cache_file, now)
       IN  IF loaded.raised
           THEN /\ fpc' = "crashed"
                /\ cached_articles' = <<>>
                /\ rss_result' = <<>>
                /\ feed_state' = [f \in Feeds |-> "idle"]
           ELSE IF Truthy(loaded.value)
           THEN /\ fpc' = "returned"
                /\ cached_articles' = loaded.value
                /\ rss_result' = loaded.value
                /\ feed_state' = [f \in Feeds |-> "idle"]
           ELSE /\ fpc' = "fetching"
                /\ cached_articles' = loaded.value
                /\ rss_result' = <<>>
                /\ feed_state' = [f \in Feeds |-> "queued"]
    /\ UNCHANGED <<now, ticks, cache_file, saved>>
    /\ UNCHANGED <<mainVars, pureVars>>

\* A pool worker takes a queued feed and issues its request (line 168).
FetchStart(f) ==
    /\ fpc = "fetching"
    /\ feed_state[f] = "queued"
    /\ Cardinality({g \in Feeds : feed_state[g] = "running"}) < MAX_WORKERS
    /\ feed_state' = [feed_state EXCEPT ![f] = "running"]
    /\ UNCHANGED <<now, ticks, runs, cache_file, fpc, http, future, articles,
                   cached_articles, rss_result, run_cache, run_start, saved>>
    /\ UNCHANGED <<mainVars, pureVars>>

\* The worker's fetch_feed call ends (lines 167-174) with one of `outcomes`.
FetchFinish(f, outcomes) ==
    /\ fpc = "fetching"
    /\ feed_state[f] = "running"
    /\ \E outcome \in outcomes :
           /\ http' = [http EXCEPT ![f] = outcome]
           /\ future' = [future EXCEPT ![f] = fetch_feed(outcome)]
    /\ feed_state' = [feed_state EXCEPT ![f] = "finished"]
    /\ UNCHANGED <<now, ticks, runs, cache_file, fpc, articles,
                   cached_articles, rss_result, run_cache, run_start, saved>>
    /\ UNCHANGED <<mainVars, pureVars>>

\* One iteration of the as_completed loop, lines 187-226.
ConsumeFuture(f) ==
    /\ fpc = "fetching"
    /\ feed_state[f] = "finished"
    /\ feed_state' = [feed_state EXCEPT ![f] = "consumed"]
    /\ IF future[f].raised
       THEN fpc' = "crashed" /\ articles' = articles
       ELSE fpc' = fpc /\ articles' = articles \o feed_articles(f, future[f].entries)
    /\ UNCHANGED <<now, ticks, runs, cache_file, http, future,
                   cached_articles, rss_result, run_cache, run_start, saved>>
    /\ UNCHANGED <<mainVars, pureVars>>

AllConsumed == \A f \in Feeds : feed_state[f] = "consumed"

\* Lines 227-229.
SaveAndReturn ==
    /\ fpc = "fetching"
    /\ AllConsumed
    /\ cache_file' = save_cache(articles, now)
    /\ saved' = <<save_cache(articles, now)>>
    /\ rss_result' = <<articles>>
    /\ fpc' = "returned"
    /\ UNCHANGED <<now, ticks, runs, feed_state, http, future, articles,
                   cached_articles, run_cache, run_start>>
    /\ UNCHANGED <<mainVars, pureVars>>

\* The clock is read at line 157 and at line 163 only, so it advances before a
\* run starts and before the batch is saved.
TickSteps == {1, CACHE_TTL - 1, CACHE_TTL}

Tick ==
    /\ ticks < MaxTicks
    /\ fpc = "idle" \/ (fpc = "fetching" /\ AllConsumed)
    /\ \E d \in TickSteps : now' = now + d
    /\ ticks' = ticks + 1
    /\ UNCHANGED <<runs, cache_file, fpc, feed_state, http, future, articles,
                   cached_articles, rss_result, run_cache, run_start, saved>>
    /\ UNCHANGED <<mainVars, pureVars>>

\* The script ends (returned or crashed) and may be run again.
NextRun ==
    /\ fpc \in {"returned", "crashed"}
    /\ runs < MaxRuns
    /\ fpc' = "idle"
    /\ UNCHANGED <<now, ticks, runs, cache_file, feed_state, http, future, articles,
                   cached_articles, rss_result, run_cache, run_start, saved>>
    /\ UNCHANGED <<mainVars, pureVars>>

\* One run of the fetch stage from an absent cache file.
InitFetch ==
    /\ MainIdle
    /\ PureIdle
    /\ FetchIdle

NextFetch ==
    \/ StartRun
    \/ \E f \in Feeds : FetchStart(f)
    \/ \E f \in Feeds : FetchFinish(f, HttpOutcomes)
    \/ \E f \in Feeds : ConsumeFuture(f)
    \/ SaveAndReturn

SpecFetch == InitFetch /\ [][NextFetch]_vars

\* Runs of the script over time, from any cache file a run may find.  Here a
\* feed fails or answers with one entry: the cache logic reads a batch only for
\* being empty or not.
CacheRunOutcomes ==
    {[ok |-> FALSE, entries |-> <<>>],
     [ok |-> TRUE, entries |-> <<TRUE>>]}

InitialFiles ==
    {AbsentFile, File("corrupt", 0, <<>>), File("nondict", 0, <<>>),
     File("record", 0, <<>>), File("record", 0, <<[feed |-> 1, idx |-> 1]>>)}

InitCache ==
    /\ MainIdle
    /\ PureIdle
    /\ now = 0
    /\ ticks = 0
    /\ runs = 0
    /\ cache_file \in InitialFiles
    /\ fpc = "idle"
    /\ feed_state = [f \in Feeds |-> "idle"]
    /\ http = [f \in Feeds |-> NoOutcome]
    /\ future = [f \in Feeds |-> NoFuture]
    /\ articles = <<>>
    /\ cached_articles = <<>>
    /\ rss_result = <<>>
    /\ run_cache = AbsentFile
    /\ run_start = 0
    /\ saved = <<>>

NextCache ==
    \/ StartRun
    \/ \E f \in Feeds : FetchStart(f)
    \/ \E f \in Feeds : FetchFinish(f, CacheRunOutcomes)
    \/ \E f \in Feeds : ConsumeFuture(f)
    \/ SaveAndReturn
    \/ Tick
    \/ NextRun

SpecCache == InitCache /\ [][NextCache]_vars

(***************************************************************************)
(* Deduplication loop, lines 356-364.                                      *)
(***************************************************************************)
\* Deviations of the loop body, used to test that the properties below depend on it.
\* (the loop without the `not in seen_urls` test; the loop replacing a kept record
\* by a later one with its url)
DedupStepNoSeenCheck(acc, article) ==
    IF article.url # 0
    THEN IF is_ai_related(article.title, article.summary)
         THEN [unique |-> Append(acc.unique, article),
               seen |-> acc.seen \cup {article.url}]
         ELSE acc
    ELSE acc

DedupStepLastWins(acc, article) ==
    IF article.url # 0 /\ is_ai_related(article.title, article.summary)
    THEN IF article.url \notin acc.seen
         THEN [unique |-> Append(acc.unique, article),
               seen |-> acc.seen \cup {article.url}]
         ELSE [unique |-> [i \in DOMAIN acc.unique |->
                              IF acc.unique[i].url = article.url
                              THEN article ELSE acc.unique[i]],
               seen |-> acc.seen]
    ELSE acc

\* A url is a natural from 1 up; 0 would be the empty string (line 359).
DedupStep(acc, article) ==
    IF article.url # 0 /\ article.url \notin acc.seen
    THEN IF is_ai_related(article.title, article.summary)
         THEN [unique |-> Append(acc.unique, article),
               seen |-> acc.seen \cup {article.url}]
         ELSE acc
    ELSE acc

RECURSIVE DedupLoop(_, _)
DedupLoop(acc, rest) ==
    IF rest = <<>> THEN acc
    ELSE DedupLoop(DedupStep(acc, Head(rest)), Tail(rest))

Init ==
    /\ FetchIdle
    /\ PureIdle
    /\ pc = "fetched"
    /\ all_articles \in Batches
    /\ seen_urls = {}
    /\ unique_articles = <<>>
    /\ articles_to_process = <<>>
    /\ headline_results = <<>>
    /\ processed_articles = <<>>
    /\ main_headline = <<>>
    /\ column1 = <<>>
    /\ column2 = <<>>
    /\ column3 = <<>>

Deduplicate ==
    /\ pc = "fetched"
    /\ LET r == DedupLoop([unique |-> <<>>, seen |-> {}], all_articles)
       IN  /\ unique_articles' = r.unique
           /\ seen_urls' = r.seen
    /\ pc' = "deduped"
    /\ UNCHANGED <<all_articles, articles_to_process, headline_results,
                   processed_articles, main_headline, column1, column2, column3>>
    /\ UNCHANGED <<fetchVars, pureVars>>

\* Lines 365-376.
IsTechnical(a) == a.source \in technical_sources
IsNonTechnical(a) == a.source \notin technical_sources

SelectArticles ==
    /\ pc = "deduped"
    /\ LET technical_articles ==
               Slice(sort_by_published(SelectSeq(unique_articles, IsTechnical)),
                     0, MAX_TECHNICAL_ARTICLES)
           non_technical_articles == SelectSeq(unique_articles, IsNonTechnical)
           recombined == sort_by_published(non_technical_articles \o technical_articles)
       IN  /\ unique_articles' = recombined
           /\ articles_to_process' = Slice(recombined, 0, MAX_TOTAL_ARTICLES)
    /\ pc' = "selected"
    /\ UNCHANGED <<all_articles, seen_urls, headline_results, processed_articles,
                   main_headline, column1, column2, column3>>
    /\ UNCHANGED <<fetchVars, pureVars>>

\* Lines 382-408: the results gathered at line 387, one per article in the order
\* of articles_to_process, zipped with the articles (zip stops at the shorter).
ProcessedRecord(article, res) ==
    [id |-> article.id, url |-> article.url,
     score |-> res[1] + get_boost(article.title, article.summary, article.source) + res[2]]

ProcessArticles ==
    /\ pc = "selected"
    /\ \E res \in [DOMAIN articles_to_process -> ApiResults] :
           /\ headline_results' = res
           /\ processed_articles' =
                  [i \in 1..Min(Len(articles_to_process), Len(res)) |->
                      ProcessedRecord(articles_to_process[i], res[i])]
    /\ pc' = "scored"
    /\ UNCHANGED <<all_articles, seen_urls, unique_articles, articles_to_process,
                   main_headline, column1, column2, column3>>
    /\ UNCHANGED <<fetchVars, pureVars>>

\* Line 414.
SortByScore ==
    /\ pc = "scored"
    /\ processed_articles' = sort_by_score(processed_articles)
    /\ pc' = "ranked"
    /\ UNCHANGED <<all_articles, seen_urls, unique_articles, articles_to_process,
                   headline_results, main_headline, column1, column2, column3>>
    /\ UNCHANGED <<fetchVars, pureVars>>

\* Lines 417-424.
\* (a variant rounding down)
col_size_floor(other_headlines) == Len(other_headlines) \div 3

col_size_of(other_headlines) == (Len(other_headlines) + 2) \div 3

SplitColumns ==
    /\ pc = "ranked"
    /\ LET other_headlines == Slice(processed_articles, 1, Len(processed_articles))
           col_size == col_size_of(other_headlines)
       IN  /\ main_headline' = IF processed_articles # <<>>
                               THEN <<processed_articles[1]>> ELSE <<>>
           /\ column1' = Slice(other_headlines, 0, col_size)
           /\ column2' = Slice(other_headlines, col_size, col_size * 2)
           /\ column3' = Slice(other_headlines, col_size * 2, Len(other_headlines))
    /\ pc' = "done"
    /\ UNCHANGED <<all_articles, seen_urls, unique_articles, articles_to_process,
                   headline_results, processed_articles>>
    /\ UNCHANGED <<fetchVars, pureVars>>

Next ==
    \/ Deduplicate
    \/ SelectArticles
    \/ ProcessArticles
    \/ SortByScore
    \/ SplitColumns

Spec == Init /\ [][Next]_vars

(***************************************************************************)
(* The ranking stage alone: lines 414-424 from any scored list of up to     *)
(* MaxRanked articles (the main block cuts the list at MAX_TOTAL_ARTICLES). *)
(***************************************************************************)
Scores == {10, 20, 30}

ScorePattern(n, m, o) ==
    [i \in 1..n |-> 10 * (((i * m + o) % 3) + 1)]

ScoreLists ==
    SeqsUpTo(Scores, FullRanked)
      \cup {ScorePattern(n, m, o) : n \in 0..MaxRanked, m \in 0..2, o \in 0..2}

RankedInputs ==
    {[i \in DOMAIN sc |-> [id |-> i, url |-> i, score |-> sc[i]]] : sc \in ScoreLists}

InitRank ==
    /\ FetchIdle
    /\ PureIdle
    /\ pc = "scored"
    /\ processed_articles \in RankedInputs
    /\ all_articles = <<>>
    /\ seen_urls = {}
    /\ unique_articles = <<>>
    /\ articles_to_process = <<>>
    /\ headline_results = <<>>
    /\ main_headline = <<>>
    /\ column1 = <<>>
    /\ column2 = <<>>
    /\ column3 = <<>>

NextRank ==
    \/ SortByScore
    \/ SplitColumns

SpecRank == InitRank /\ [][NextRank]_vars

(***************************************************************************)
(* Image extraction and scoring on their own, from every input of a bounded *)
(* set.                                                                    *)
(***************************************************************************)
InitImage ==
    /\ MainIdle
    /\ FetchIdle
    /\ entry \in Entries
    /\ image_url = None
    /\ image_done = FALSE
    /\ article_title = <<>>
    /\ api = [ok |-> FALSE, text |-> <<>>]
    /\ score_result = Raised
    /\ score_done = FALSE

ExtractImage ==
    /\ ~image_done
    /\ image_url' = extract_image_url(entry)
    /\ image_done' = TRUE
    /\ UNCHANGED <<entry, article_title, api, score_result, score_done>>
    /\ UNCHANGED <<mainVars, fetchVars>>

NextImage == ExtractImage

SpecImage == InitImage /\ [][NextImage]_vars

InitScore ==
    /\ MainIdle
    /\ FetchIdle
    /\ entry = NoEntry
    /\ image_url = None
    /\ image_done = FALSE
    /\ article_title \in TitleTexts
    /\ api \in ApiOutcomes
    /\ score_result = Raised
    /\ score_done = FALSE

ScoreArticle ==
    /\ ~score_done
    /\ score_result' = async_get_headline_and_score(article_title, api)
    /\ score_done' = TRUE
    /\ UNCHANGED <<entry, image_url, image_done, article_title, api>>
    /\ UNCHANGED <<mainVars, fetchVars>>

NextScore == ScoreArticle

SpecScore == InitScore /\ [][NextScore]_vars

(***************************************************************************)
(* Properties.                                                             *)
(***************************************************************************)
UrlsDistinct(s) == \A i, j \in DOMAIN s : i # j => s[i].url # s[j].url

Rendered == main_headline \o column1 \o column2 \o column3

\* C1: after the deduplication loop no two records of unique_articles share a
\* url, and neither do two records of articles_to_process, of processed_articles,
\* or of main_headline plus column1..column3.
C1_UniqueUrls ==
    /\ UrlsDistinct(unique_articles)
    /\ UrlsDistinct(articles_to_process)
    /\ UrlsDistinct(processed_articles)
    /\ UrlsDistinct(Rendered)

\* C1 witness: a finished run whose input held two AI-related records with one
\* url and that still rendered two or more articles.
C1_Witness ==
    /\ pc = "done"
    /\ Len(Rendered) >= 2
    /\ \E i, j \in DOMAIN all_articles :
           /\ i < j
           /\ all_articles[i].url = all_articles[j].url
           /\ is_ai_related(all_articles[i].title, all_articles[i].summary)
           /\ is_ai_related(all_articles[j].title, all_articles[j].summary)

IsAi(a) == is_ai_related(a.title, a.summary)

FirstWithUrl(u) ==
    CHOOSE k \in DOMAIN all_articles :
        /\ all_articles[k].url = u
        /\ \A m \in 1..(k - 1) : all_articles[m].url # u

FirstAiWithUrl(u) ==
    CHOOSE k \in DOMAIN all_articles :
        /\ all_articles[k].url = u /\ IsAi(all_articles[k])
        /\ \A m \in 1..(k - 1) : ~(all_articles[m].url = u /\ IsAi(all_articles[m]))

InInputOrder(s) == \A i, j \in DOMAIN s : i < j => s[i].id < s[j].id

\* C4 as stated: right after the deduplication loop, the record kept for a url
\* is the earliest record of all_articles with that url, and the kept records
\* are in the order of those first occurrences.
C4_Original ==
    pc = "deduped" =>
        /\ \A i \in DOMAIN unique_articles :
               unique_articles[i] = all_articles[FirstWithUrl(unique_articles[i].url)]
        /\ UrlsDistinct(unique_articles)
        /\ InInputOrder(unique_articles)

\* C4 as amended: right after the deduplication loop, the record kept for a url
\* is the earliest record of all_articles with that url that is_ai_related
\* accepts; every other record with that url is discarded, and the kept records
\* are in the order of those occurrences.
C4_FirstAiOccurrenceWins ==
    pc = "deduped" =>
        /\ \A i \in DOMAIN unique_articles :
               /\ IsAi(unique_articles[i])
               /\ unique_articles[i] = all_articles[FirstAiWithUrl(unique_articles[i].url)]
        /\ UrlsDistinct(unique_articles)
        /\ InInputOrder(unique_articles)

\* C4 witness: a url whose first record is not AI-related and is followed by two
\* AI-related records; the first of the two was kept.
C4_Witness ==
    /\ pc = "deduped"
    /\ \E i, j, k \in DOMAIN all_articles :
           /\ i < j /\ j < k
           /\ all_articles[i].url = all_articles[j].url
           /\ all_articles[j].url = all_articles[k].url
           /\ ~IsAi(all_articles[i]) /\ IsAi(all_articles[j]) /\ IsAi(all_articles[k])
           /\ all_articles[j] \in Range(unique_articles)
           /\ all_articles[k] \notin Range(unique_articles)

\* A run is under way or has ended, and found this at its start.
RunFoundRecord == fpc # "idle" /\ runs > 0 /\ run_cache.kind = "record"
RunFoundFresh == RunFoundRecord /\ run_start - run_cache.timestamp < CACHE_TTL
RunFoundExpired == RunFoundRecord /\ run_start - run_cache.timestamp >= CACHE_TTL
RunFoundAbsent == fpc # "idle" /\ runs > 0 /\ run_cache.kind = "absent"
RunFoundUnreadable ==
    fpc # "idle" /\ runs > 0 /\ run_cache.kind \in {"corrupt", "nondict"}

NoFetchIssued == \A f \in Feeds : feed_state[f] = "idle"

\* C2 as stated: a run that finds a cache record with now - timestamp < TTL
\* issues no feed fetch and returns exactly the cached batch, whatever the
\* length of that batch, zero included.
C2_Original ==
    RunFoundFresh =>
        /\ NoFetchIssued
        /\ fpc # "crashed"
        /\ fpc = "returned" => rss_result = <<run_cache.articles>>

\* C3 as stated: a run that finds a cache file it cannot read or unpickle, or
\* whose content is no record, lets no error escape and fetches every feed.
C3_Original ==
    RunFoundUnreadable =>
        /\ fpc # "crashed"
        /\ fpc = "returned" => AllConsumed

\* What the claims expect of one feed: the entries with a title and a link among
\* its first MAX_ARTICLES_PER_SOURCE, in parser order; nothing if its fetch failed.
ExpectedIdx(outcome) ==
    IF outcome.ok
    THEN {i \in DOMAIN outcome.entries : i <= MAX_ARTICLES_PER_SOURCE /\ outcome.entries[i]}
    ELSE {}

FromFeed(batch, f) ==
    LET Mine(a) == a.feed = f
    IN  SelectSeq(batch, Mine)

IdxIncreasing(s) == \A i, j \in DOMAIN s : i < j => s[i].idx < s[j].idx

\* C5: whichever feeds fail, no exception reaches get_articles_from_rss, a failed
\* feed contributes nothing, every feed is fetched and processed, and the batch
\* returned holds the articles of every feed that succeeded.
C5_FailedFeedsAreEmpty ==
    /\ fpc # "crashed"
    /\ \A f \in Feeds :
           feed_state[f] = "consumed" /\ ~http[f].ok => FromFeed(articles, f) = <<>>
    /\ fpc = "returned" =>
           /\ AllConsumed
           /\ rss_result = <<articles>>
           /\ \A f \in Feeds :
                  {a.idx : a \in Range(FromFeed(rss_result[1], f))} = ExpectedIdx(http[f])

\* C5 witness: a run returned a non-empty batch although a feed had failed, and
\* the failed feed was processed before a feed that succeeded.
C5_Witness ==
    /\ fpc = "returned"
    /\ rss_result # <<>> /\ rss_result[1] # <<>>
    /\ \E f, g \in Feeds :
           /\ f < g
           /\ ~http[f].ok
           /\ http[g].ok /\ FromFeed(rss_result[1], g) # <<>>

\* C9: in every interleaving the articles of one feed are, in parser order, among
\* its first MAX_ARTICLES_PER_SOURCE entries, at most that many, and form one
\* block that no other feed's article interrupts.
C9_PerFeedOrder ==
    /\ \A f \in Feeds :
           LET mine == FromFeed(articles, f)
           IN  /\ Len(mine) <= MAX_ARTICLES_PER_SOURCE
               /\ IdxIncreasing(mine)
               /\ \A k \in DOMAIN mine :
                      /\ mine[k].idx <= MAX_ARTICLES_PER_SOURCE
                      /\ mine[k].idx \in DOMAIN http[f].entries
                      /\ http[f].entries[mine[k].idx]
    /\ \A i, j, k \in DOMAIN articles :
           i < j /\ j < k /\ articles[i].feed = articles[k].feed
               => articles[j].feed = articles[i].feed

\* C9 witness: a feed with more entries than the cap and one without a title
\* contributed a single article, after the two articles of a later feed.
C9_Witness ==
    /\ fpc = "returned"
    /\ \E f, g \in Feeds :
           /\ f < g
           /\ http[f].ok /\ http[f].entries = <<FALSE, TRUE, TRUE>>
           /\ Len(FromFeed(articles, g)) = MAX_ARTICLES_PER_SOURCE
           /\ articles = FromFeed(articles, g) \o <<[feed |-> f, idx |-> 2]>>

\* C10: a run that finds no cache file or an expired record fetches every feed,
\* leaves the cache file alone until every fetch is done, then writes the whole
\* batch as one record stamped with the clock of that moment and returns it, not
\* the expired batch; a run that starts within TTL of a write reads back, at
\* line 179, exactly the batch that was written.
C10_MissFetchesAndPersists ==
    /\ fpc = "fetching" => cache_file = run_cache
    /\ (RunFoundAbsent \/ RunFoundExpired) =>
           /\ fpc # "crashed"
           /\ cached_articles = <<>>
           /\ fpc = "returned" =>
                  /\ AllConsumed
                  /\ rss_result = <<articles>>
                  /\ cache_file = File("record", now, articles)
                  /\ saved = <<cache_file>>
    /\ (RunFoundFresh /\ saved = <<run_cache>>) =>
           cached_articles = <<saved[1].articles>>

\* C10 witness: the second run started within TTL of the first run's write of a
\* non-empty batch, read that batch back and returned.
C10_Witness ==
    /\ fpc = "returned"
    /\ runs = 2
    /\ saved = <<run_cache>>
    /\ run_cache.articles # <<>>
    /\ run_start > run_cache.timestamp
    /\ RunFoundFresh
    /\ cached_articles = <<run_cache.articles>>

\* The claim's order of image sources; each is None when the source is missing.
ClaimMediaContent(e) ==
    IF e.media_content.items # <<>> THEN e.media_content.items[1].url ELSE None

ClaimMediaThumbnail(e) ==
    IF e.media_thumbnail.items # <<>> THEN e.media_thumbnail.items[1].url ELSE None

StartsWithImageSlash(type) == Len(type) >= 2 /\ type[1] = "image" /\ type[2] = "/"

FirstOrNone(items, Good(_), Value(_)) ==
    IF \E i \in DOMAIN items : Good(items[i])
    THEN Value(items[CHOOSE i \in DOMAIN items :
                        Good(items[i]) /\ \A j \in 1..(i - 1) : ~Good(items[j])])
    ELSE None

ClaimEnclosure(e) ==
    LET Good(enc) == StartsWithImageSlash(enc.type)
        Value(enc) == enc.href
    IN  FirstOrNone(e.enclosures.items, Good, Value)

ClaimImg(field) ==
    LET Good(img) == img.src # None
        Value(img) == img.src
    IN  FirstOrNone(field.items, Good, Value)

ClaimImageUrl(e) ==
    LET sources == <<ClaimMediaContent(e), ClaimMediaThumbnail(e), ClaimEnclosure(e),
                     ClaimImg(e.summary), ClaimImg(e.content)>>
    IN  IF \E i \in 1..5 : ~Falsy(sources[i])
        THEN sources[CHOOSE i \in 1..5 :
                        ~Falsy(sources[i]) /\ \A j \in 1..(i - 1) : Falsy(sources[j])]
        ELSE None

\* C6 as stated: image_url is the value of the first of the five sources, in
\* their order, that yields a non-empty value (an empty or missing one is
\* skipped), and None when none does.
C6_Original == image_done => image_url = ClaimImageUrl(entry)

\* The claim's reading of a response: the fields around its first two pipes.
PipesOf(t) == {i \in DOMAIN t : t[i] = "|"}

FirstPipe(t) == CHOOSE i \in PipesOf(t) : \A j \in PipesOf(t) : i <= j
SecondPipe(t) ==
    CHOOSE i \in PipesOf(t) \ {FirstPipe(t)} : \A j \in PipesOf(t) \ {FirstPipe(t)} : i <= j

Trimmed(t) ==
    LET solid == {i \in DOMAIN t : t[i] # " "}
    IN  IF solid = {} THEN <<>>
        ELSE LET lo == CHOOSE i \in solid : \A j \in solid : i <= j
                 hi == CHOOSE i \in solid : \A j \in solid : j <= i
             IN  SubSeq(t, lo, hi)

IsInteger(t) == Trimmed(t) # <<>> /\ \A i \in DOMAIN Trimmed(t) : Trimmed(t)[i] \in Digits

RECURSIVE ValueOf(_)
ValueOf(t) ==
    IF Len(t) <= 1 THEN (IF t = <<"2">> THEN 2 ELSE IF t = <<"1">> THEN 1 ELSE 0)
    ELSE ValueOf(<<Head(t)>>) * (10 ^ (Len(t) - 1)) + ValueOf(Tail(t))

WithoutStars(t) ==
    LET NotStar(c) == c # "*"
    IN  SelectSeq(t, NotStar)

\* C7: the coroutine never raises; on a transport error, on a response without
\* three fields, or on a score or tech_importance field that is no integer it
\* returns (title stripped, 5, 0), and only a response of three fields with both
\* numbers integers yields the headline, score and tech_importance of the response.
C7_FallbackOrParsed ==
    score_done =>
        /\ ~score_result.raised
        /\ LET t == Trimmed(api.text)
               three == Cardinality(PipesOf(t)) >= 2
               f1 == SubSeq(t, 1, FirstPipe(t) - 1)
               f2 == SubSeq(t, FirstPipe(t) + 1, SecondPipe(t) - 1)
               f3 == SubSeq(t, SecondPipe(t) + 1, Len(t))
           IN  IF api.ok /\ three /\ IsInteger(f1) /\ IsInteger(f3)
               THEN score_result =
                        Returned(WithoutStars(Trimmed(f2)), ValueOf(Trimmed(f1)),
                                 ValueOf(Trimmed(f3)))
               ELSE score_result = Returned(Trimmed(article_title), 5, 0)

\* C7 witness: a response of three fields whose last field is no integer was
\* answered with the fallback.
C7_Witness ==
    /\ score_done
    /\ api.ok
    /\ api.text = <<"1", "|", "x", "|", "x">>
    /\ article_title = <<" ", "x", "*", " ">>
    /\ score_result = Returned(<<"x", "*">>, 5, 0)

\* The claim's own arithmetic: ceil(r / 3), and the part of s at the 0-based
\* positions lo <= p < hi.
CeilThird(r) == CHOOSE c \in 0..r : 3 * c >= r /\ (c = 0 \/ 3 * (c - 1) < r)

Positions(s, lo, hi) ==
    LET idx == {p \in 0..(Len(s) - 1) : lo <= p /\ p < hi}
    IN  [k \in 1..Cardinality(idx) |-> s[lo + k]]

\* C8: for a ranked list of n >= 1 articles main_headline is its first element
\* and, with r = n - 1 and c = ceil(r / 3), the columns are the slices [0,c),
\* [c,2c), [2c,r) of the remainder: main + column1 + column2 + column3 is the
\* ranked list and column1 and column2 hold at most c items; for n = 0
\* main_headline is None and the columns are empty.
C8_ColumnSplit ==
    pc = "done" =>
        LET n == Len(processed_articles)
            r == n - 1
            rest == Tail(processed_articles)
            c == CeilThird(r)
        IN  IF n = 0
            THEN main_headline = <<>> /\ column1 = <<>> /\ column2 = <<>> /\ column3 = <<>>
            ELSE /\ main_headline = <<processed_articles[1]>>
                 /\ column1 = Positions(rest, 0, c)
                 /\ column2 = Positions(rest, c, 2 * c)
                 /\ column3 = Positions(rest, 2 * c, r)
                 /\ Rendered = processed_articles
                 /\ Len(column1) <= c /\ Len(column2) <= c

\* C8 witness: ten articles after the main headline split as 4, 4, 2.
C8_Witness ==
    /\ pc = "done"
    /\ Len(processed_articles) = 11
    /\ Len(main_headline) = 1
    /\ Len(column1) = 4 /\ Len(column2) = 4 /\ Len(column3) = 2

\* C11: after the final sort processed_articles is in non-increasing order of
\* score, holds the same articles as before, and two articles of equal score
\* keep the relative order they had before the sort (in the ranking stage an
\* article's id is its position before the sort).
C11_StableDescendingSort ==
    pc \in {"ranked", "done"} =>
        /\ \A i, j \in DOMAIN processed_articles :
               i < j => processed_articles[i].score >= processed_articles[j].score
        /\ \A i, j \in DOMAIN processed_articles :
               i < j /\ processed_articles[i].score = processed_articles[j].score
                   => processed_articles[i].id < processed_articles[j].id
        /\ {processed_articles[i].id : i \in DOMAIN processed_articles}
               = 1..Len(processed_articles)

\* C11 witness: the scores 10, 30, 20, 30 came out as 30, 30, 20, 10 with the
\* second article before the fourth.
C11_Witness ==
    /\ pc = "ranked"
    /\ Len(processed_articles) = 4
    /\ [i \in 1..4 |-> processed_articles[i].score] = <<30, 30, 20, 10>>
    /\ [i \in 1..4 |-> processed_articles[i].id] = <<2, 4, 3, 1>>

====
